---- MODULE Spec2Model ----
(***************************************************************************)
(* Execution and verification pipeline of the AI Operations Assistant:     *)
(* ExecutorAgent (src/agents/executor.py) and VerifierAgent                *)
(* (src/agents/verifier.py).                                               *)
(*                                                                         *)
(* Python values are represented as follows.                               *)
(*   None            the string None ("<None>"), or NonePayload for a      *)
(*                   handler response / StepResult data                    *)
(*   handler payload a record [type, error]: the Python type of the        *)
(*                   response and the value of response.get("error")       *)
(*   text            a sequence of string tokens (concatenation is \o,     *)
(*                   the empty string is << >>)                            *)
(***************************************************************************)
EXTENDS Integers, Sequences, FiniteSets, TLC

\* ---------------------------------------------------------------- bounds
MaxRetriesBound == 3
MaxSteps == 2
\* most parameters a step carries when parameter cleaning is taken on its own
MaxParams == 2
\* most steps in the plan of a request when two requests run concurrently
ConcMaxSteps == 1

\* ---------------------------------------------------------- Python values
None == "<None>"
NoKey == "<no key>"

Texts == {"timeout", "rate limit"}

NonePayload == [type |-> "NoneType", error |-> NoKey]
DictPayload(e) == [type |-> "dict", error |-> e]

\* what a handler can return without signalling an error
SuccessPayloads == {NonePayload, DictPayload("")}

\* what a handler can return
Payloads == SuccessPayloads \cup {DictPayload(t) : t \in Texts}

\* one invocation of a handler: it returns a payload or raises a fault
Outcomes ==
  [kind : {"return"}, payload : Payloads, text : {None}]
  \cup [kind : {"raise"}, payload : {NonePayload}, text : Texts]

\* bool(v) of a value read with dict.get
Truthy(v) == v \notin {NoKey, None, ""}

\* isinstance(response, dict) and response.get("error")
IsErrorResponse(response) == response.type = "dict" /\ Truthy(response.error)

\* ------------------------------------------------------- parameter values
\* Python values a plan can carry as parameter values: t is the type name,
\* n the number (an int's value, a finite float's value in tenths), s the
\* text of a str or the name of a number that has no n
IntV(n) == [t |-> "int", n |-> n, s |-> ""]
FloatV(tenths) == [t |-> "float", n |-> tenths, s |-> ""]
StrV(s) == [t |-> "str", n |-> 0, s |-> s]
NoneV == [t |-> "NoneType", n |-> 0, s |-> ""]
\* float("inf"), as json.loads gives for 1e999 or Infinity
InfV == [t |-> "float", n |-> 0, s |-> "inf"]
\* an int beyond the range of float, 10**400
HugeV == [t |-> "int", n |-> 0, s |-> "10**400"]

Returned(v) == [raises |-> "", value |-> v]
Raised(exc) == [raises |-> exc, value |-> NoneV]

\* truncation toward zero of a float given in tenths
Trunc(tenths) ==
  IF tenths >= 0 THEN tenths \div 10 ELSE -((-tenths) \div 10)

\* int(value)
int(value) ==
  CASE value.t = "int" -> Returned(value)
    [] value.t = "float" ->
         IF value.s = "inf" THEN Raised("OverflowError")
         ELSE Returned(IntV(Trunc(value.n)))
    [] value.t = "str" ->
         IF value.s = "5" THEN Returned(IntV(5)) ELSE Raised("ValueError")
    [] OTHER -> Raised("TypeError")

\* float(value)
float(value) ==
  CASE value.t = "float" -> Returned(value)
    [] value.t = "int" ->
         IF value.s = "10**400" THEN Raised("OverflowError")
         ELSE Returned(FloatV(value.n * 10))
    [] value.t = "str" ->
         CASE value.s = "5" -> Returned(FloatV(50))
           [] value.s = "2.5" -> Returned(FloatV(25))
           [] value.s = "inf" -> Returned(InfV)
           [] OTHER -> Raised("ValueError")
    [] OTHER -> Raised("TypeError")

\* ---------------------------------------------------------------- registry
ToolNames == {"github", "weather", "news"}

Functions(tool) ==
  CASE tool = "github" ->
         {"search_repositories", "get_repository_details", "get_user_repos"}
    [] tool = "weather" -> {"get_current_weather", "get_weather_by_coordinates"}
    [] tool = "news" -> {"search_news", "get_top_headlines"}
    [] OTHER -> {}

\* every declared function of the registry binds a handler
HasHandler(tool, function_name) == function_name \in Functions(tool)

\* str.lower() on the tool identifiers of the model
Lower(s) ==
  CASE s = "GitHub" -> "github"
    [] s = "Slack" -> "slack"
    [] s = "Top headlines" -> "top headlines"
    [] s = "Latest HEADLINE" -> "latest headline"
    [] s = "Stop press" -> "stop press"
    [] OTHER -> s

\* "needle in haystack" on the action strings of the model
ActionContains(action, needle) ==
  CASE needle = "top" -> action \in {"top headlines", "stop press"}
    [] needle = "headline" -> action \in {"top headlines", "latest headline"}
    [] OTHER -> FALSE

\* ------------------------------------------------------------------- steps
StepSet ==
  { [tool |-> "weather", function |-> "get_current_weather",
     action |-> "get weather", parameters |-> {"city"}],
    [tool |-> "GitHub", function |-> "",
     action |-> "repo details", parameters |-> {"owner", "repo"}],
    [tool |-> "Slack", function |-> "post",
     action |-> "post message", parameters |-> {}] }

SeqsUpTo(S, n) == UNION { [1..k -> S] : k \in 0..n }

\* a plan either has no "steps" key or carries a sequence of steps
Plans ==
  {[has_steps |-> FALSE, steps |-> << >>]}
  \cup {[has_steps |-> TRUE, steps |-> s] : s \in SeqsUpTo(StepSet, MaxSteps)}

\* plan.get("steps", [])
PlanSteps(p) == IF p.has_steps THEN p.steps ELSE << >>

\* ------------------------------------------------------- ExecutorAgent
\* _infer_function with a city key taking precedence over lat and lon
_infer_function_CityFirst(tool_name, step) ==
  LET parameters == step.parameters
      action == Lower(step.action)
  IN CASE tool_name = "github" ->
            IF "owner" \in parameters /\ "repo" \in parameters
              THEN "get_repository_details"
            ELSE IF "username" \in parameters THEN "get_user_repos"
            ELSE "search_repositories"
       [] tool_name = "weather" ->
            IF "city" \in parameters THEN "get_current_weather"
            ELSE IF "lat" \in parameters /\ "lon" \in parameters
              THEN "get_weather_by_coordinates"
            ELSE "get_current_weather"
       [] tool_name = "news" ->
            IF ActionContains(action, "headline") \/ ActionContains(action, "top")
              THEN "get_top_headlines"
            ELSE "search_news"
       [] OTHER -> None

\* ExecutorAgent._infer_function
_infer_function(tool_name, step) ==
  LET parameters == step.parameters
      action == Lower(step.action)
  IN CASE tool_name = "github" ->
            IF "owner" \in parameters /\ "repo" \in parameters
              THEN "get_repository_details"
            ELSE IF "username" \in parameters THEN "get_user_repos"
            ELSE "search_repositories"
       [] tool_name = "weather" ->
            IF "lat" \in parameters /\ "lon" \in parameters
              THEN "get_weather_by_coordinates"
            ELSE "get_current_weather"
       [] tool_name = "news" ->
            IF ActionContains(action, "headline") \/ ActionContains(action, "top")
              THEN "get_top_headlines"
            ELSE "search_news"
       [] OTHER -> None

\* the conversion _clean_parameters applies to the value of a parameter
Coerce(param, value) ==
  IF param = "limit" THEN int(value)
  ELSE IF param \in {"lat", "lon"} THEN float(value)
  ELSE Returned(value)

\* except (ValueError, TypeError): pass
Caught(exc) == exc \in {"ValueError", "TypeError"}

\* _clean_parameters with every exception of a conversion caught
_clean_parameters_CatchAll(parameters, expected_params) ==
  IF expected_params = {}
    THEN Returned(parameters)
  ELSE
    LET present == expected_params \cap DOMAIN parameters
    IN Returned([param \in present |->
                   LET c == Coerce(param, parameters[param])
                   IN IF c.raises = "" THEN c.value ELSE parameters[param]])

\* ExecutorAgent._clean_parameters: parameters is the dict of the step,
\* expected_params the names the function declares; the call returns the
\* cleaned dict or raises what a conversion raised and the except clause
\* does not name
_clean_parameters(parameters, expected_params) ==
  IF expected_params = {}
    THEN Returned(parameters)
  ELSE
    LET present == expected_params \cap DOMAIN parameters
        escaping == {param \in present :
                       LET c == Coerce(param, parameters[param])
                       IN c.raises # "" /\ ~Caught(c.raises)}
    IN IF escaping # {}
         THEN Raised(Coerce(CHOOSE param \in escaping : TRUE,
                            parameters[CHOOSE param \in escaping : TRUE]).raises)
       ELSE Returned([param \in present |->
                        LET c == Coerce(param, parameters[param])
                        IN IF c.raises = "" THEN c.value
                           ELSE parameters[param]])

\* the StepResult _execute_step starts from
NewResult(step_id, step) ==
  [step_id |-> step_id, tool |-> Lower(step.tool), function |-> step.function,
   action |-> step.action, success |-> FALSE, data |-> NonePayload,
   error |-> None, attempts |-> 0]

\* Resolve with the tool looked up and reported as written in the step,
\* and the function inferred before the tool is looked up
Resolve_RawName(step) ==
  LET tool_name == Lower(step.tool) IN
  IF step.tool \notin ToolNames
    THEN [ok |-> FALSE, function_name |-> step.function, inferred |-> TRUE,
          error |-> "Unknown tool: " \o step.tool]
  ELSE
    LET declared == step.function \in Functions(tool_name)
        function_name == IF declared THEN step.function
                         ELSE _infer_function(tool_name, step)
    IN IF ~declared /\ function_name = None
         THEN [ok |-> FALSE, function_name |-> function_name, inferred |-> TRUE,
               error |-> "Unknown function 'None' for tool '" \o tool_name \o "'"]
       ELSE IF ~HasHandler(tool_name, function_name)
         THEN [ok |-> FALSE, function_name |-> function_name,
               inferred |-> ~declared,
               error |-> "No handler found for function: " \o function_name]
       ELSE [ok |-> TRUE, function_name |-> function_name,
             inferred |-> ~declared, error |-> None]

\* _execute_step up to the retry loop: tool, function and handler resolution.
\* ok: the retry loop is reached; inferred: _infer_function was called.
Resolve(step) ==
  LET tool_name == Lower(step.tool) IN
  IF tool_name \notin ToolNames
    THEN [ok |-> FALSE, function_name |-> step.function, inferred |-> FALSE,
          error |-> "Unknown tool: " \o tool_name]
  ELSE
    LET declared == step.function \in Functions(tool_name)
        function_name == IF declared THEN step.function
                         ELSE _infer_function(tool_name, step)
    IN IF ~declared /\ function_name = None
         THEN [ok |-> FALSE, function_name |-> function_name, inferred |-> TRUE,
               error |-> "Unknown function 'None' for tool '" \o tool_name \o "'"]
       ELSE IF ~HasHandler(tool_name, function_name)
         THEN [ok |-> FALSE, function_name |-> function_name,
               inferred |-> ~declared,
               error |-> "No handler found for function: " \o function_name]
       ELSE [ok |-> TRUE, function_name |-> function_name,
             inferred |-> ~declared, error |-> None]

\* AttemptBody with a raised fault ending the step at once instead of being
\* retried
AttemptBody_ReturnOnFault(res, attempt, o, max_retries) ==
  LET r == [res EXCEPT !.attempts = attempt + 1] IN
  IF o.kind = "return"
    THEN IF IsErrorResponse(o.payload)
           THEN IF attempt < max_retries - 1
                  THEN [result |-> r, ctl |-> "loop", slept |-> TRUE]
                ELSE [result |-> [r EXCEPT !.error = o.payload.error],
                      ctl |-> "return", slept |-> FALSE]
         ELSE [result |-> [r EXCEPT !.success = TRUE, !.data = o.payload],
               ctl |-> "return", slept |-> FALSE]
  ELSE [result |-> [r EXCEPT !.error = o.text],
        ctl |-> "return", slept |-> FALSE]

\* AttemptBody with result["attempts"] = attempt
AttemptBody_AttemptsOffByOne(res, attempt, o, max_retries) ==
  LET r == [res EXCEPT !.attempts = attempt] IN
  IF o.kind = "return"
    THEN IF IsErrorResponse(o.payload)
           THEN IF attempt < max_retries - 1
                  THEN [result |-> r, ctl |-> "loop", slept |-> TRUE]
                ELSE [result |-> [r EXCEPT !.error = o.payload.error],
                      ctl |-> "return", slept |-> FALSE]
         ELSE [result |-> [r EXCEPT !.success = TRUE, !.data = o.payload],
               ctl |-> "return", slept |-> FALSE]
  ELSE IF attempt < max_retries - 1
         THEN [result |-> r, ctl |-> "loop", slept |-> TRUE]
       ELSE [result |-> [r EXCEPT !.error = o.text],
             ctl |-> "loop", slept |-> FALSE]

\* AttemptBody with no time.sleep in the except branch
AttemptBody_NoSleepOnFault(res, attempt, o, max_retries) ==
  LET r == [res EXCEPT !.attempts = attempt + 1] IN
  IF o.kind = "return"
    THEN IF IsErrorResponse(o.payload)
           THEN IF attempt < max_retries - 1
                  THEN [result |-> r, ctl |-> "loop", slept |-> TRUE]
                ELSE [result |-> [r EXCEPT !.error = o.payload.error],
                      ctl |-> "return", slept |-> FALSE]
         ELSE [result |-> [r EXCEPT !.success = TRUE, !.data = o.payload],
               ctl |-> "return", slept |-> FALSE]
  ELSE IF attempt < max_retries - 1
         THEN [result |-> r, ctl |-> "loop", slept |-> FALSE]
       ELSE [result |-> [r EXCEPT !.error = o.text],
             ctl |-> "loop", slept |-> FALSE]

\* AttemptBody with time.sleep after every failed attempt, the last included
AttemptBody_SleepOnLast(res, attempt, o, max_retries) ==
  LET r == [res EXCEPT !.attempts = attempt + 1] IN
  IF o.kind = "return"
    THEN IF IsErrorResponse(o.payload)
           THEN IF attempt < max_retries - 1
                  THEN [result |-> r, ctl |-> "loop", slept |-> TRUE]
                ELSE [result |-> [r EXCEPT !.error = o.payload.error],
                      ctl |-> "return", slept |-> TRUE]
         ELSE [result |-> [r EXCEPT !.success = TRUE, !.data = o.payload],
               ctl |-> "return", slept |-> FALSE]
  ELSE IF attempt < max_retries - 1
         THEN [result |-> r, ctl |-> "loop", slept |-> TRUE]
       ELSE [result |-> [r EXCEPT !.error = o.text],
             ctl |-> "loop", slept |-> TRUE]

\* one iteration of the retry loop of _execute_step, the handler having
\* produced outcome o on the attempt-th iteration (0-based).
\* ctl: "return" leaves _execute_step, "loop" goes back to the loop header.
AttemptBody(res, attempt, o, max_retries) ==
  LET r == [res EXCEPT !.attempts = attempt + 1] IN
  IF o.kind = "return"
    THEN IF IsErrorResponse(o.payload)
           THEN IF attempt < max_retries - 1
                  THEN [result |-> r, ctl |-> "loop", slept |-> TRUE]
                ELSE [result |-> [r EXCEPT !.error = o.payload.error],
                      ctl |-> "return", slept |-> FALSE]
         ELSE [result |-> [r EXCEPT !.success = TRUE, !.data = o.payload],
               ctl |-> "return", slept |-> FALSE]
  ELSE IF attempt < max_retries - 1
         THEN [result |-> r, ctl |-> "loop", slept |-> TRUE]
       ELSE [result |-> [r EXCEPT !.error = o.text],
             ctl |-> "loop", slept |-> FALSE]

\* for attempt in range(self.max_retries): is there an iteration after this one
LoopContinues(attempt, max_retries) == attempt + 1 < max_retries

\* the report execute_plan starts from
NewReport(p) ==
  [step_results |-> << >>, tools_used |-> {},
   total_steps |-> Len(PlanSteps(p)), successful_steps |-> 0,
   failed_steps |-> 0, error |-> None]

\* Record with failed steps left out of failed_steps
Record_NoFailedCount(rep, step, step_result) ==
  IF step_result.success
    THEN [rep EXCEPT !.step_results = Append(@, step_result),
                     !.successful_steps = @ + 1,
                     !.tools_used = @ \cup {step.tool}]
  ELSE [rep EXCEPT !.step_results = Append(@, step_result)]

\* Record with the tool of every step added to tools_used
Record_AlwaysAddTool(rep, step, step_result) ==
  IF step_result.success
    THEN [rep EXCEPT !.step_results = Append(@, step_result),
                     !.successful_steps = @ + 1,
                     !.tools_used = @ \cup {step.tool}]
  ELSE [rep EXCEPT !.step_results = Append(@, step_result),
                   !.failed_steps = @ + 1,
                   !.tools_used = @ \cup {step.tool}]

\* body of the loop of execute_plan once _execute_step has returned
Record(rep, step, step_result) ==
  IF step_result.success
    THEN [rep EXCEPT !.step_results = Append(@, step_result),
                     !.successful_steps = @ + 1,
                     !.tools_used = @ \cup {step.tool}]
  ELSE [rep EXCEPT !.step_results = Append(@, step_result),
                   !.failed_steps = @ + 1]

\* ------------------------------------------------------------------ state
VARIABLES
  max_retries,   \* ExecutorAgent.max_retries
  plan,          \* the plan handed to execute_plan
  pc,            \* "idle", "steps" (loop of execute_plan), "retry" (loop of
                 \* _execute_step), "report" (execute_plan returned),
                 \* "verified" / "raised" (verify_and_format returned / raised)
  results,       \* the report execute_plan builds
  idx,           \* position in the plan of the step being executed
  result,        \* the StepResult _execute_step builds
  attempt,       \* loop variable of the retry loop
  trace,         \* how each handler invocation of the current step ended:
                 \* "ok" or "fail" (error response, or raised)
  all_raised,    \* every handler invocation of the current step raised
  last,          \* outcome of the latest handler invocation
  waits,         \* time.sleep(retry_delay) calls of the current step
  twin,          \* a second _execute_step on the same step whose handler
                 \* fails at the same attempts with the same texts, soft
                 \* errors and raised faults possibly exchanged
  last_call,     \* the most recent _execute_step call completed in the
                 \* running execute_plan
  exec_calls,    \* _execute_step calls made by execute_plan
  handler_calls, \* handler invocations made by execute_plan
  _initialized,  \* VerifierAgent._initialized
  llm_inits,     \* get_llm_client() calls
  llm_calls,     \* llm_client.verify_results() calls
  verification,  \* what verify_and_format returned
  path,          \* the branch verify_and_format returned from: "none",
                 \* "empty", "all_failed", "llm", "fallback", "raised"
  call,          \* one call of a helper of _execute_step taken on its own:
                 \* its arguments, its position and what it returned
  reqs           \* the frames of the requests running concurrently through
                 \* the shared executor and verifier

exec_vars ==
  <<max_retries, plan, pc, results, idx, result, attempt, trace, all_raised,
    last, waits, twin, last_call, exec_calls, handler_calls>>

ver_vars == <<_initialized, llm_inits, llm_calls, verification, path>>

aux_vars == <<call, reqs>>

vars == <<exec_vars, ver_vars, aux_vars>>

NoStep == [tool |-> "", function |-> "", action |-> "", parameters |-> {}]

NoTwin == [result |-> NewResult(0, NoStep), running |-> FALSE,
           invocations |-> 0, waits |-> 0, exchanged |-> FALSE]

\* no helper call is being looked at
NoHelperCall == [kind |-> "none"]

NoOutcome == [kind |-> "none", payload |-> NonePayload, text |-> None]

\* how an invocation ended
Kind(o) ==
  IF o.kind = "raise" \/ IsErrorResponse(o.payload) THEN "fail" ELSE "ok"

NoCall ==
  [valid |-> FALSE, step |-> NoStep, resolved |-> FALSE, inferred |-> FALSE,
   result |-> NewResult(0, NoStep), trace |-> << >>, all_raised |-> TRUE,
   last |-> NoOutcome, waits |-> 0, twin |-> NoTwin]

\* the same failure reported the other way: a soft error as a raised fault
\* carrying the same text, a raised fault as a soft error
Exchanged(o) ==
  IF o.kind = "raise"
    THEN [kind |-> "return", payload |-> DictPayload(o.text), text |-> None]
  ELSE IF IsErrorResponse(o.payload)
    THEN [kind |-> "raise", payload |-> NonePayload, text |-> o.payload.error]
  ELSE o

ExecInit ==
  /\ max_retries \in 0..MaxRetriesBound
  /\ plan \in Plans
  /\ pc = "idle"
  /\ results = NewReport([has_steps |-> FALSE, steps |-> << >>])
  /\ idx = 0
  /\ result = NewResult(0, NoStep)
  /\ attempt = 0
  /\ trace = << >>
  /\ all_raised = TRUE
  /\ last = NoOutcome
  /\ waits = 0
  /\ twin = NoTwin
  /\ last_call = NoCall
  /\ exec_calls = 0
  /\ handler_calls = 0

\* ExecutePlan without the "if not steps" return
ExecutePlan_NoShortCircuit ==
  /\ pc = "idle"
  /\ results' = NewReport(plan)
  /\ pc' = "steps"
  /\ idx' = 1
  /\ UNCHANGED <<aux_vars, max_retries, plan, result, attempt, trace, all_raised, last,
                 waits, twin, last_call, exec_calls, handler_calls, ver_vars>>

\* execute_plan up to its loop: the report is created and an empty plan
\* returns at once
ExecutePlan ==
  /\ pc = "idle"
  /\ IF PlanSteps(plan) = << >>
       THEN /\ results' = [NewReport(plan) EXCEPT
                             !.error = "No executable steps in plan"]
            /\ pc' = "report"
            /\ idx' = idx
       ELSE /\ results' = NewReport(plan)
            /\ pc' = "steps"
            /\ idx' = 1
  /\ UNCHANGED <<aux_vars, max_retries, plan, result, attempt, trace, all_raised, last,
                 waits, twin, last_call, exec_calls, handler_calls, ver_vars>>

\* Return with the loop of execute_plan left at the first failed step
Return_StopOnFailure(step, res, resolved, inferred, tr, ar, o, w, tw) ==
  /\ results' = Record(results, step, res)
  /\ last_call' = [valid |-> TRUE, step |-> step, resolved |-> resolved,
                   inferred |-> inferred, result |-> res, trace |-> tr,
                   all_raised |-> ar, last |-> o, waits |-> w,
                   twin |-> tw]
  /\ idx' = IF res.success THEN idx + 1 ELSE Len(PlanSteps(plan)) + 1
  /\ pc' = "steps"

\* _execute_step returns res to the loop of execute_plan, which records it
Return(step, res, resolved, inferred, tr, ar, o, w, tw) ==
  /\ results' = Record(results, step, res)
  /\ last_call' = [valid |-> TRUE, step |-> step, resolved |-> resolved,
                   inferred |-> inferred, result |-> res, trace |-> tr,
                   all_raised |-> ar, last |-> o, waits |-> w,
                   twin |-> tw]
  /\ idx' = idx + 1
  /\ pc' = "steps"

\* execute_plan calls _execute_step on the next step, which resolves the
\* tool, the function and the handler and enters the retry loop
BeginStep ==
  /\ pc = "steps"
  /\ idx <= Len(PlanSteps(plan))
  /\ LET step == PlanSteps(plan)[idx]
         res == NewResult(idx, step)
         rsl == Resolve(step)
     IN /\ exec_calls' = exec_calls + 1
        /\ trace' = << >>
        /\ all_raised' = TRUE
        /\ last' = NoOutcome
        /\ waits' = 0
        /\ attempt' = 0
        /\ IF ~rsl.ok
             THEN /\ Return(step, [res EXCEPT !.error = rsl.error], FALSE,
                            rsl.inferred, << >>, TRUE, NoOutcome, 0, NoTwin)
                  /\ result' = [res EXCEPT !.error = rsl.error]
                  /\ twin' = NoTwin
           ELSE IF max_retries <= 0
             THEN /\ Return(step, res, TRUE, rsl.inferred, << >>, TRUE, NoOutcome, 0,
                            [NoTwin EXCEPT !.result = res])
                  /\ result' = res
                  /\ twin' = [NoTwin EXCEPT !.result = res]
           ELSE /\ result' = res
                /\ twin' = [result |-> res, running |-> TRUE,
                            invocations |-> 0, waits |-> 0,
                            exchanged |-> FALSE]
                /\ pc' = "retry"
                /\ UNCHANGED <<results, last_call, idx>>
  /\ UNCHANGED <<aux_vars, max_retries, plan, handler_calls, ver_vars>>

\* the twin's iteration on outcome o2 where the step's handler produced o,
\* if the twin has not returned yet
TwinStep(tw, o, o2) ==
  IF ~tw.running THEN tw
  ELSE LET b == AttemptBody(tw.result, attempt, o2, max_retries) IN
       [result |-> b.result,
        running |-> b.ctl = "loop" /\ LoopContinues(attempt, max_retries),
        invocations |-> tw.invocations + 1,
        waits |-> tw.waits + (IF b.slept THEN 1 ELSE 0),
        exchanged |-> tw.exchanged \/ o2 # o]

\* one iteration of the retry loop: the handler is invoked and returns a
\* payload or raises
Attempt ==
  /\ pc = "retry"
  /\ \E o \in Outcomes, o2 \in Outcomes :
       /\ o2 \in {o, Exchanged(o)}
       /\ LET step == PlanSteps(plan)[idx]
              b == AttemptBody(result, attempt, o, max_retries)
              tr == Append(trace, Kind(o))
              ar == all_raised /\ o.kind = "raise"
              w == waits + (IF b.slept THEN 1 ELSE 0)
              tw == TwinStep(twin, o, o2)
          IN /\ result' = b.result
             /\ trace' = tr
             /\ all_raised' = ar
             /\ last' = o
             /\ waits' = w
             /\ twin' = tw
             /\ handler_calls' = handler_calls + 1
             /\ IF b.ctl = "loop" /\ LoopContinues(attempt, max_retries)
                  THEN /\ attempt' = attempt + 1
                       /\ UNCHANGED <<pc, results, last_call, idx>>
                ELSE /\ Return(step, b.result, TRUE,
                               Resolve(step).inferred, tr, ar, o, w, tw)
                     /\ attempt' = attempt
  /\ UNCHANGED <<aux_vars, max_retries, plan, exec_calls, ver_vars>>

\* list(set): the elements in an order the build chooses
Orders(S) ==
  {q \in [1..Cardinality(S) -> S] : \A i, j \in 1..Cardinality(S) :
                                      i # j => q[i] # q[j]}

\* execute_plan after its loop: tools_used becomes a list and the report is
\* returned; the locals of the step loop go out of scope
FinishPlan ==
  /\ pc = "steps"
  /\ idx > Len(PlanSteps(plan))
  /\ \E q \in Orders(results.tools_used) :
       results' = [results EXCEPT !.tools_used = q]
  /\ pc' = "report"
  /\ result' = NewResult(0, NoStep)
  /\ attempt' = 0
  /\ trace' = << >>
  /\ all_raised' = TRUE
  /\ last' = NoOutcome
  /\ waits' = 0
  /\ twin' = NoTwin
  /\ last_call' = NoCall
  /\ UNCHANGED <<aux_vars, max_retries, plan, idx, exec_calls, handler_calls, ver_vars>>

\* ------------------------------------------------------- VerifierAgent
\* str(v) in an f-string
Str(v) == IF v = None THEN "None" ELSE v

\* str.upper() on the tool identifiers of the registry
Upper(s) ==
  CASE s = "github" -> "GITHUB"
    [] s = "weather" -> "WEATHER"
    [] s = "news" -> "NEWS"
    [] OTHER -> s

\* sep.join(parts), parts a sequence of texts
RECURSIVE Join(_, _)
Join(parts, sep) ==
  IF parts = << >> THEN << >>
  ELSE IF Len(parts) = 1 THEN parts[1]
  ELSE parts[1] \o <<sep>> \o Join(Tail(parts), sep)

\* bool(text)
NonEmpty(text) == \E i \in 1..Len(text) : text[i] # ""

\* [{"step_id": ..., "action": ..., "error": ...} for r in step_results
\*  if not r.get("success")]
RECURSIVE FailedSteps(_)
FailedSteps(step_results) ==
  IF step_results = << >> THEN << >>
  ELSE LET r == step_results[1] IN
       (IF ~r.success
          THEN <<[step_id |-> r.step_id, action |-> r.action,
                  error |-> r.error]>>
        ELSE << >>)
       \o FailedSteps(Tail(step_results))

\* SuccessfulResults without the filter
SuccessfulResults_All(step_results) == step_results

\* [r for r in step_results if r.get("success")]
RECURSIVE SuccessfulResults(_)
SuccessfulResults(step_results) ==
  IF step_results = << >> THEN << >>
  ELSE (IF step_results[1].success THEN <<step_results[1]>> ELSE << >>)
       \o SuccessfulResults(Tail(step_results))

\* the query the request carries
original_task == "task"

\* one line of the partial-failure note
NoteLine(step) == "- " \o Str(step.action) \o ": " \o Str(step.error)

RECURSIVE NoteLines(_)
NoteLines(failed_steps) ==
  IF failed_steps = << >> THEN << >>
  ELSE << <<NoteLine(failed_steps[1])>> >> \o NoteLines(Tail(failed_steps))

NoteHeader == "\n\n**Note:** Some information could not be retrieved:"

\* VerifierAgent._format_failure_note
_format_failure_note(failed_steps) ==
  IF failed_steps = << >> THEN << >>
  ELSE Join(<< <<NoteHeader>> >> \o NoteLines(failed_steps), "\n")

RECURSIVE ErrorDetails(_)
ErrorDetails(failed_steps) ==
  IF failed_steps = << >> THEN << >>
  ELSE << <<"- Step " \o ToString(failed_steps[1].step_id) \o ": "
            \o Str(failed_steps[1].error)>> >>
       \o ErrorDetails(Tail(failed_steps))

\* VerifierAgent._format_all_failed
_format_all_failed(task, failed_steps) ==
  [keys |-> {"is_complete", "formatted_answer", "missing_info",
             "failed_steps", "suggestions"},
   is_complete |-> FALSE,
   formatted_answer |->
     <<"I was unable to complete your request: \"", task,
       "\"\n\nAll execution steps failed with the following errors:\n">>
     \o Join(ErrorDetails(failed_steps), "\n")
     \o <<"\n\n**Suggestions:**\n- Check that all required API keys are configured in your .env file\n- Verify your internet connection\n- Try simplifying your query\n- Check if the requested resources exist (e.g., valid city names, repository names)">>,
   missing_info |-> <<"All requested information due to execution failures">>,
   failed_steps |-> failed_steps,
   suggestions |-> <<"Verify API keys are configured",
                     "Check internet connection", "Try a simpler query">>]

\* the response when there are no step results
NoResults ==
  [keys |-> {"is_complete", "formatted_answer", "missing_info",
             "failed_steps", "suggestions"},
   is_complete |-> FALSE,
   formatted_answer |->
     <<"No results were obtained. The execution plan was empty or all steps failed.">>,
   missing_info |-> <<"All requested information">>,
   failed_steps |-> << >>,
   suggestions |-> <<"Please try rephrasing your query">>]

\* VerifierAgent._format_tool_data raises on a payload that is not a mapping:
\* "repositories" in None, None.get(...)
FormatRaises(tool, data) == data.type = "NoneType"

\* VerifierAgent._format_tool_data, the rendering of a mapping abridged to
\* one token
_format_tool_data(tool, data) == <<"<" \o tool \o " data>">>

ToolPart(r) ==
  << <<"\n**" \o Upper(r.tool) \o " Results:**">>,
     _format_tool_data(r.tool, r.data) >>

RECURSIVE ToolParts(_)
ToolParts(step_results) ==
  IF step_results = << >> THEN << >>
  ELSE (IF step_results[1].success THEN ToolPart(step_results[1]) ELSE << >>)
       \o ToolParts(Tail(step_results))

\* does VerifierAgent._basic_format raise
BasicFormatRaises(step_results) ==
  \E i \in 1..Len(step_results) :
    step_results[i].success
    /\ FormatRaises(step_results[i].tool, step_results[i].data)

\* VerifierAgent._basic_format, when it does not raise
_basic_format(task, step_results, failed_steps) ==
  LET formatted_parts ==
        << <<"**Results for:** ", task, "\n">> >>
        \o ToolParts(step_results)
        \o (IF failed_steps # << >>
              THEN << _format_failure_note(failed_steps) >> ELSE << >>)
  IN [keys |-> {"is_complete", "formatted_answer", "failed_steps",
                "suggestions"},
      is_complete |-> Len(failed_steps) = 0,
      formatted_answer |-> Join(formatted_parts, "\n"),
      missing_info |-> << >>,
      failed_steps |-> failed_steps,
      suggestions |-> << >>]

\* what the text-generation capability does when verify_and_format turns to
\* it: get_llm_client() fails, verify_results raises, or verify_results
\* returns something that is not a mapping or a mapping
LLMOutcomes ==
  [kind : {"unavailable", "raise", "not_mapping"}, has_answer : {FALSE},
   formatted_answer : {<< >>}, is_complete : {FALSE}]
  \cup [kind : {"dict"}, has_answer : {TRUE},
        formatted_answer : {<<"Here is what I found.">>},
        is_complete : BOOLEAN]
  \cup [kind : {"dict"}, has_answer : BOOLEAN, formatted_answer : {<< >>},
        is_complete : {FALSE}]

NoVerification ==
  [keys |-> {}, is_complete |-> FALSE, formatted_answer |-> << >>,
   missing_info |-> << >>, failed_steps |-> << >>, suggestions |-> << >>]

\* the try block of verify_and_format when verify_results returned a mapping
LLMVerification(llm, failed_steps) ==
  LET keys == {"is_complete", "missing_info", "failed_steps",
               "successful_steps", "total_steps"}
              \cup (IF llm.has_answer THEN {"formatted_answer"} ELSE {})
      answer == llm.formatted_answer
  IN [keys |-> keys,
      is_complete |-> llm.is_complete,
      formatted_answer |->
        IF failed_steps # << >> /\ llm.has_answer /\ NonEmpty(answer)
          THEN answer \o _format_failure_note(failed_steps)
        ELSE answer,
      missing_info |-> << >>,
      failed_steps |-> failed_steps,
      suggestions |-> << >>]

\* the except branch of verify_and_format
Fallback(step_results, failed_steps) ==
  IF BasicFormatRaises(step_results)
    THEN /\ verification' = NoVerification
         /\ path' = "raised"
         /\ pc' = "raised"
  ELSE /\ verification' = _basic_format(original_task, step_results, failed_steps)
       /\ path' = "fallback"
       /\ pc' = "verified"

\* VerifierAgent.verify_and_format on the report execute_plan returned
Verify ==
  /\ pc = "report"
  /\ LET step_results == results.step_results
         failed_steps == FailedSteps(step_results)
         successful_results == SuccessfulResults(step_results)
     IN IF step_results = << >>
          THEN /\ verification' = NoResults
               /\ path' = "empty"
               /\ pc' = "verified"
               /\ UNCHANGED <<_initialized, llm_inits, llm_calls>>
        ELSE IF successful_results = << >>
          THEN /\ verification' = _format_all_failed(original_task, failed_steps)
               /\ path' = "all_failed"
               /\ pc' = "verified"
               /\ UNCHANGED <<_initialized, llm_inits, llm_calls>>
        ELSE \E llm \in LLMOutcomes :
               /\ llm_inits' = llm_inits + (IF _initialized THEN 0 ELSE 1)
               /\ IF ~_initialized /\ llm.kind = "unavailable"
                    THEN /\ UNCHANGED <<_initialized, llm_calls>>
                         /\ Fallback(step_results, failed_steps)
                  ELSE /\ _initialized' = TRUE
                       /\ llm_calls' = llm_calls + 1
                       /\ IF llm.kind = "dict"
                            THEN /\ verification' =
                                      LLMVerification(llm, failed_steps)
                                 /\ path' = "llm"
                                 /\ pc' = "verified"
                          ELSE Fallback(step_results, failed_steps)
  /\ UNCHANGED <<aux_vars, max_retries, plan, results, idx, result, attempt, trace,
                 all_raised, last, waits, twin, last_call, exec_calls,
                 handler_calls>>

Init ==
  /\ ExecInit
  /\ _initialized = FALSE
  /\ llm_inits = 0
  /\ llm_calls = 0
  /\ verification = NoVerification
  /\ path = "none"
  /\ call = NoHelperCall
  /\ reqs = << >>

Next == ExecutePlan \/ BeginStep \/ Attempt \/ FinishPlan \/ Verify

Spec == Init /\ [][Next]_vars

C2_SuccessOnAttemptK ==
  /\ (pc = "retry" => \A i \in 1..Len(trace) : trace[i] # "ok")
  /\ (last_call.valid /\ (\E i \in 1..Len(last_call.trace) :
                            last_call.trace[i] = "ok"))
       => LET k == Len(last_call.trace) IN
          /\ 1 <= k /\ k <= max_retries
          /\ last_call.trace[k] = "ok"
          /\ \A i \in 1..(k - 1) : last_call.trace[i] = "fail"
          /\ last_call.result.success
          /\ last_call.result.attempts = k
          /\ last_call.last.kind = "return"
          /\ last_call.result.data = last_call.last.payload

C2_Witness ==
  /\ last_call.valid
  /\ max_retries = 3
  /\ last_call.trace = <<"fail", "ok">>
  /\ last_call.result.success
  /\ last_call.result.attempts = 2

\* C3: exchanging soft errors and raised faults of the same text in the
\* handler's outcomes changes neither success, attempts and error of the
\* StepResult nor the number of invocations and of retry_delay waits.
C3_SoftHardSame ==
  (last_call.valid /\ last_call.resolved)
    => /\ ~last_call.twin.running
       /\ last_call.twin.result.success = last_call.result.success
       /\ last_call.twin.result.attempts = last_call.result.attempts
       /\ last_call.twin.result.error = last_call.result.error
       /\ last_call.twin.invocations = Len(last_call.trace)
       /\ last_call.twin.waits = last_call.waits

C3_Witness ==
  /\ last_call.valid /\ last_call.resolved
  /\ last_call.twin.exchanged
  /\ last_call.trace = <<"fail", "fail", "fail">>
  /\ last_call.last.kind = "return"
  /\ last_call.waits = 2
  /\ last_call.twin.result.error = "timeout"

\* C4: in every StepResult, 1 <= attempts <= max_retries when the handler
\* was invoked, and attempts = 0 exactly when resolution failed.
C4_AttemptsRange ==
  last_call.valid
    => /\ (Len(last_call.trace) >= 1 =>
             /\ 1 <= last_call.result.attempts
             /\ last_call.result.attempts <= max_retries)
       /\ (last_call.result.attempts = 0 <=> ~last_call.resolved)

\* C5: every StepResult has error absent and data present when success is
\* true, and error present when success is false.
C5_ResultInvariant ==
  last_call.valid
    => /\ (last_call.result.success =>
             /\ last_call.result.error = None
             /\ last_call.result.data # NonePayload)
       /\ (~last_call.result.success => last_call.result.error # None)

\* C6: a step whose normalized tool identifier is not in the registry gets
\* success = false, error "Unknown tool: <identifier>" and attempts = 0,
\* with no handler invocation, no function inference and no wait.
C6_UnknownTool ==
  (last_call.valid /\ Lower(last_call.step.tool) \notin ToolNames)
    => /\ ~last_call.result.success
       /\ last_call.result.error = "Unknown tool: " \o Lower(last_call.step.tool)
       /\ last_call.result.attempts = 0
       /\ last_call.trace = << >>
       /\ ~last_call.inferred
       /\ last_call.waits = 0

C6_Witness ==
  /\ last_call.valid
  /\ last_call.step.tool = "Slack"
  /\ last_call.result.error = "Unknown tool: slack"
  /\ handler_calls = 0

AllFailed(step_results) ==
  /\ step_results # << >>
  /\ \A i \in 1..Len(step_results) : ~step_results[i].success

\* C7: when there are step results and all of them failed, verify_and_format
\* returns is_complete = false, some suggestions and one failed_steps entry
\* per step, and the text-generation capability is neither initialized nor
\* invoked.
C7_AllFailedDeterministic ==
  (pc \in {"verified", "raised"} /\ AllFailed(results.step_results))
    => /\ pc = "verified"
       /\ ~verification.is_complete
       /\ verification.suggestions # << >>
       /\ Len(verification.failed_steps) = Len(results.step_results)
       /\ \A i \in 1..Len(results.step_results) :
            /\ verification.failed_steps[i].step_id = results.step_results[i].step_id
            /\ verification.failed_steps[i].action = results.step_results[i].action
            /\ verification.failed_steps[i].error = results.step_results[i].error
       /\ ~_initialized
       /\ llm_inits = 0
       /\ llm_calls = 0

C7_Witness ==
  /\ pc = "verified"
  /\ path = "all_failed"
  /\ Len(results.step_results) = 2
  /\ results.step_results[1].attempts = 3
  /\ Len(verification.failed_steps) = 2
  /\ llm_calls = 0

EndsWith(text, suffix) ==
  /\ Len(text) >= Len(suffix)
  /\ SubSeq(text, Len(text) - Len(suffix) + 1, Len(text)) = suffix

Mixed(step_results) ==
  /\ \E i \in 1..Len(step_results) : step_results[i].success
  /\ \E i \in 1..Len(step_results) : ~step_results[i].success

\* C8: when some step succeeded and some step failed, the formatted_answer
\* verify_and_format returns is non-empty and ends with the partial-failure
\* note, which has the action and the error of every failed step.
C8_PartialFailureNote ==
  (pc = "verified" /\ Mixed(results.step_results))
    => LET failed == FailedSteps(results.step_results)
           answer == verification.formatted_answer
       IN /\ "formatted_answer" \in verification.keys
          /\ NonEmpty(answer)
          /\ EndsWith(answer, _format_failure_note(failed))
          /\ \A i \in 1..Len(failed) :
               \E j \in 1..Len(answer) : answer[j] = NoteLine(failed[i])

\* C9: verify_and_format returns a VerificationResult whatever the handlers
\* returned and whatever the text-generation capability does; no fault
\* leaves it.
C9_NoEscape == pc # "raised"

\* C10: an empty plan gives a report with total_steps = 0, the error "No
\* executable steps in plan", zero counts and no step results, without any
\* _execute_step call or handler invocation.
C10_EmptyPlan ==
  (pc # "idle" /\ PlanSteps(plan) = << >>)
    => /\ pc \in {"report", "verified"}
       /\ results.total_steps = 0
       /\ results.error = "No executable steps in plan"
       /\ results.successful_steps = 0
       /\ results.failed_steps = 0
       /\ results.step_results = << >>
       /\ exec_calls = 0
       /\ handler_calls = 0

C10_Witness ==
  /\ pc = "report"
  /\ ~plan.has_steps
  /\ results.error = "No executable steps in plan"
  /\ results.total_steps = 0

Done == pc \in {"report", "verified", "raised"}

Range(q) == {q[i] : i \in 1..Len(q)}

\* position of the first step of the plan naming tool t
FirstStep(t) ==
  CHOOSE i \in 1..Len(PlanSteps(plan)) :
    /\ PlanSteps(plan)[i].tool = t
    /\ \A j \in 1..(i - 1) : PlanSteps(plan)[j].tool # t

\* C11: tools_used of the report lists each tool once, in the order in
\* which the tools first appear in the plan.
C11_FirstOccurrenceOrder ==
  (Done /\ PlanSteps(plan) # << >>)
    => LET tu == results.tools_used IN
       /\ \A a, b \in 1..Len(tu) : a # b => tu[a] # tu[b]
       /\ \A a, b \in 1..Len(tu) :
            FirstStep(tu[a]) < FirstStep(tu[b]) => a < b

\* C12: when a step succeeded and the text-generation capability failed,
\* verify_and_format returns the fallback result, whose is_complete is true
\* exactly when no step failed.
C12_FallbackComplete ==
  (path \in {"fallback", "raised"})
    => /\ path = "fallback"
       /\ pc = "verified"
       /\ (verification.is_complete
             <=> FailedSteps(results.step_results) = << >>)

\* C16: every VerificationResult has the fields is_complete,
\* formatted_answer, missing_info, failed_steps and suggestions.
C16_FiveFields ==
  pc = "verified"
    => {"is_complete", "formatted_answer", "missing_info", "failed_steps",
        "suggestions"} \subseteq verification.keys

\* C17: steps run in plan order and none is skipped: while a step is in its
\* retry loop the results of all earlier steps are appended, every result
\* sits at the position of its step, and the report of a plan has one
\* result per step whatever failed.
C17_InOrder ==
  /\ pc \in {"steps", "retry"} => Len(results.step_results) = idx - 1
  /\ pc = "retry" => idx <= Len(PlanSteps(plan))
  /\ \A j \in 1..Len(results.step_results) :
       /\ j <= Len(PlanSteps(plan))
       /\ results.step_results[j].step_id = j
       /\ results.step_results[j].action = PlanSteps(plan)[j].action
       /\ results.step_results[j].tool = Lower(PlanSteps(plan)[j].tool)
  /\ Done => Len(results.step_results) = Len(PlanSteps(plan))

C17_Witness ==
  /\ pc = "report"
  /\ Len(PlanSteps(plan)) = 2
  /\ ~results.step_results[1].success
  /\ results.step_results[1].attempts = 3
  /\ results.step_results[2].success
  /\ results.step_results[2].step_id = 2

Successes(step_results) ==
  Cardinality({i \in 1..Len(step_results) : step_results[i].success})

\* C18: after each step of the loop successful_steps + failed_steps is the
\* number of results appended and successful_steps the number of successful
\* results; in the report of a non-empty plan both sums equal total_steps.
C18_Counts ==
  /\ results.successful_steps + results.failed_steps
       = Len(results.step_results)
  /\ results.successful_steps = Successes(results.step_results)
  /\ (Done /\ PlanSteps(plan) # << >>)
       => /\ results.total_steps = Len(results.step_results)
          /\ results.total_steps = Len(PlanSteps(plan))

C18_Witness ==
  /\ pc = "report"
  /\ results.total_steps = 2
  /\ results.successful_steps = 1
  /\ results.failed_steps = 1

C20_ToolsOfSuccesses ==
  (Done /\ PlanSteps(plan) # << >>)
    => /\ Range(results.tools_used)
            = {PlanSteps(plan)[i].tool :
                 i \in {j \in 1..Len(results.step_results) :
                          results.step_results[j].success}}
       /\ (AllFailed(results.step_results) => results.tools_used = << >>)

C20_Witness ==
  /\ pc = "report"
  /\ Len(PlanSteps(plan)) = 2
  /\ PlanSteps(plan)[1].tool = "weather"
  /\ ~results.step_results[1].success
  /\ PlanSteps(plan)[2].tool = "GitHub"
  /\ results.step_results[2].success
  /\ results.tools_used = <<"GitHub">>

\* ------------------------------------------- function resolution on its own
\* ExecutorAgent.__init__: max_retries: int = 3
DefaultMaxRetries == 3

\* the executor and the verifier as constructed, no request running
Parked ==
  /\ max_retries = DefaultMaxRetries
  /\ plan = [has_steps |-> FALSE, steps |-> << >>]
  /\ pc = "idle"
  /\ results = NewReport([has_steps |-> FALSE, steps |-> << >>])
  /\ idx = 0
  /\ result = NewResult(0, NoStep)
  /\ attempt = 0
  /\ trace = << >>
  /\ all_raised = TRUE
  /\ last = NoOutcome
  /\ waits = 0
  /\ twin = NoTwin
  /\ last_call = NoCall
  /\ exec_calls = 0
  /\ handler_calls = 0
  /\ _initialized = FALSE
  /\ llm_inits = 0
  /\ llm_calls = 0
  /\ verification = NoVerification
  /\ path = "none"

\* the steps function resolution is exercised on: every tool of the
\* registry and one outside it, the function absent, declared for some
\* tool, or declared for none, every set of the parameter names the rule
\* table looks at, and actions with and without the keyword fragments
InferTools == ToolNames \cup {"Slack"}

InferFunctions ==
  {"", "get_user_repos", "get_current_weather", "search_news", "post"}

InferParamNames == {"owner", "repo", "username", "lat", "lon", "city"}

InferActions ==
  {"search news", "Top headlines", "Latest HEADLINE", "Stop press",
   "repo details"}

InferSteps ==
  { [tool |-> t, function |-> f, action |-> a, parameters |-> ps] :
      t \in InferTools, f \in InferFunctions, a \in InferActions,
      ps \in SUBSET InferParamNames }

InferInit ==
  /\ Parked
  /\ reqs = << >>
  /\ call \in { [kind |-> "resolve", pc |-> "start", step |-> s,
                  resolved |-> Resolve(NoStep)] : s \in InferSteps }

\* _execute_step from its entry up to the retry loop
ResolveStep ==
  /\ call.kind = "resolve"
  /\ call.pc = "start"
  /\ call' = [call EXCEPT !.pc = "resolved", !.resolved = Resolve(call.step)]
  /\ UNCHANGED <<exec_vars, ver_vars, reqs>>

InferNext == ResolveStep

SpecInfer == InferInit /\ [][InferNext]_vars

\* the rule table of function inference as the specification words it
RuleTable(tool, parameters, action) ==
  CASE tool = "github" ->
         IF {"owner", "repo"} \subseteq parameters
           THEN "get_repository_details"
         ELSE IF "username" \in parameters THEN "get_user_repos"
         ELSE "search_repositories"
    [] tool = "weather" ->
         IF {"lat", "lon"} \subseteq parameters
           THEN "get_weather_by_coordinates"
         ELSE "get_current_weather"
    [] tool = "news" ->
         IF action \in {"Top headlines", "Latest HEADLINE", "Stop press"}
           THEN "get_top_headlines"
         ELSE "search_news"

\* C14: function inference is applied only when the requested function is
\* absent or not declared for the tool (and always then, for a tool of the
\* registry); a declared requested function is used as given; otherwise
\* the resolved function is the one of the rule table: github with owner
\* and repo -> get_repository_details, else with username ->
\* get_user_repos, else search_repositories; weather with lat and lon ->
\* get_weather_by_coordinates whether or not city is present, else
\* get_current_weather; news whose action contains "headline" or "top" in
\* any letter case -> get_top_headlines, else search_news.
C14_InferenceTable ==
  (call.kind = "resolve" /\ call.pc = "resolved")
    => LET s == call.step
           r == call.resolved
           declared == s.function \in Functions(s.tool)
       IN /\ r.inferred => ~declared
          /\ s.tool \in ToolNames =>
               /\ r.inferred <=> ~declared
               /\ r.ok
               /\ declared => r.function_name = s.function
               /\ ~declared =>
                    r.function_name = RuleTable(s.tool, s.parameters, s.action)

C14_Witness ==
  /\ call.kind = "resolve"
  /\ call.pc = "resolved"
  /\ call.step.tool = "weather"
  /\ call.step.function = ""
  /\ call.step.parameters = {"lat", "lon", "city"}
  /\ call.resolved.inferred
  /\ call.resolved.function_name = "get_weather_by_coordinates"

\* ------------------------------------------- parameter cleaning on its own
PyValues ==
  {IntV(5), FloatV(25), FloatV(-25), InfV, HugeV, StrV("5"), StrV("2.5"),
   StrV("x"), NoneV}

ParamNames == {"limit", "lat", "lon", "extra"}

ExpectedNames == {"limit", "lat", "lon", "query"}

\* the parameters dict of a step: at most MaxParams names, each with a value
ParamDicts ==
  UNION { [names -> PyValues] :
            names \in {ns \in SUBSET ParamNames : Cardinality(ns) <= MaxParams} }

EmptyDict == [name \in {} |-> NoneV]

CleanInit ==
  /\ Parked
  /\ reqs = << >>
  /\ call \in { [kind |-> "clean", pc |-> "try", parameters |-> p,
                  expected_params |-> e, clean_params |-> EmptyDict,
                  passed |-> EmptyDict, error |-> ""] :
                  p \in ParamDicts, e \in SUBSET ExpectedNames }

\* the first statement of the try block of an attempt: the call of
\* _clean_parameters; what it raises lands in "except Exception"
CleanParameters ==
  /\ call.kind = "clean"
  /\ call.pc = "try"
  /\ LET r == _clean_parameters(call.parameters, call.expected_params)
     IN call' = IF r.raises = ""
                  THEN [call EXCEPT !.pc = "cleaned", !.clean_params = r.value]
                ELSE [call EXCEPT !.pc = "except", !.error = r.raises]
  /\ UNCHANGED <<exec_vars, ver_vars, reqs>>

\* response = handler(**clean_params)
CallHandler ==
  /\ call.kind = "clean"
  /\ call.pc = "cleaned"
  /\ call' = [call EXCEPT !.pc = "called", !.passed = call.clean_params]
  /\ UNCHANGED <<exec_vars, ver_vars, reqs>>

CleanNext == CleanParameters \/ CallHandler

SpecClean == CleanInit /\ [][CleanNext]_vars

\* what the cleaned parameters must be for the given ones
Projected(parameters, expected_params, cleaned) ==
  IF expected_params = {}
    THEN cleaned = parameters
  ELSE
    /\ DOMAIN cleaned = DOMAIN parameters \cap expected_params
    /\ \A name \in DOMAIN cleaned :
         CASE name = "limit" ->
                \/ cleaned[name].t = "int"
                \/ cleaned[name] = parameters[name]
           [] name \in {"lat", "lon"} ->
                \/ cleaned[name].t = "float"
                \/ cleaned[name] = parameters[name]
           [] OTHER -> cleaned[name] = parameters[name]
    /\ ("limit" \in DOMAIN cleaned /\ parameters["limit"] = StrV("5"))
         => cleaned["limit"] = IntV(5)

\* C13: the parameters passed to the handler have exactly the names that
\* are both in the step's parameters and in the declared expected names
\* (all of the step's parameters, unchanged, when none is declared); a
\* "limit" value is coerced to an integer and "lat"/"lon" values to float;
\* a value whose coercion fails is kept unchanged, and the handler is
\* still invoked: the attempt never ends in the except branch because of
\* a parameter value.
C13_Projection ==
  call.kind = "clean"
    => /\ call.pc # "except"
       /\ call.pc \in {"cleaned", "called"}
            => Projected(call.parameters, call.expected_params,
                         call.clean_params)
       /\ call.pc = "called" => call.passed = call.clean_params

\* the part of C13 that does not depend on which exceptions are caught
C13_ProjectionWhenReturned ==
  (call.kind = "clean" /\ call.pc \in {"cleaned", "called"})
    => Projected(call.parameters, call.expected_params, call.clean_params)

\* ------------------------------------------------ two concurrent requests
\* two calls of process_query whose statements interleave; both go through
\* the one ExecutorAgent of get_executor and the one VerifierAgent of
\* get_verifier
Requests == {1, 2}

\* each call of execute_plan builds its report in a dict of its own
ResultsSlot_OnInstance(r) == 1

\* the dict in which the execute_plan call of request r builds its report,
\* named by the request that owns it
ResultsSlot(r) == r

ConcSteps == {s \in StepSet : s.tool \in ToolNames \cup {"GitHub"}}

\* process_query refuses a plan without steps before the executor is called
ConcPlans ==
  {[has_steps |-> TRUE, steps |-> s] :
     s \in SeqsUpTo(ConcSteps, ConcMaxSteps) \ {<< >>}}

\* what the handlers do to a request: succeed or raise
ConcOutcomes ==
  {o \in Outcomes :
     \/ o.kind = "return" /\ o.payload = DictPayload("")
     \/ o.kind = "raise" /\ o.text = "rate limit"}

\* what verify_results does to a request
ConcResponses ==
  {llm \in LLMOutcomes :
     \/ llm.kind = "raise"
     \/ llm.kind = "dict" /\ llm.has_answer /\ llm.is_complete}

\* the locals of the loops of execute_plan and _execute_step
NoLocals == [idx |-> 0, result |-> NewResult(0, NoStep), attempt |-> 0]

NoReport == NewReport([has_steps |-> FALSE, steps |-> << >>])

NoAnswer == [path |-> "none", value |-> NoVerification]

\* list(set) in this process: the elements in the order of their hashes
ListBy(order, S) == SelectSeq(order, LAMBDA t : t \in S)

ConcInit ==
  /\ Parked
  /\ call = NoHelperCall
  /\ \E plans \in [Requests -> ConcPlans], available \in BOOLEAN,
        order \in Orders({s.tool : s \in ConcSteps}) :
       reqs = [pc |-> [r \in Requests |-> "idle"],
               plan |-> plans,
               locals |-> [r \in Requests |-> NoLocals],
               store |-> [r \in Requests |-> NoReport],
               report |-> [r \in Requests |-> NoReport],
               answer |-> [r \in Requests |-> NoAnswer],
               alone |-> [r \in Requests |-> NoReport],
               alone_report |-> [r \in Requests |-> NoReport],
               alone_answer |-> [r \in Requests |-> NoAnswer],
               llm_client |-> None,
               llm_available |-> available,
               hash_order |-> order]

\* execute_plan of request r up to its loop
ConcExecutePlan(r) ==
  /\ reqs.pc[r] = "idle"
  /\ reqs' = [reqs EXCEPT
                !.pc[r] = "steps",
                !.store[ResultsSlot(r)] = NewReport(reqs.plan[r]),
                !.locals[r] = [NoLocals EXCEPT !.idx = 1],
                !.alone[r] = NewReport(reqs.plan[r])]
  /\ UNCHANGED <<exec_vars, ver_vars, call>>

\* request r calls _execute_step on its next step
ConcBeginStep(r) ==
  /\ reqs.pc[r] = "steps"
  /\ reqs.locals[r].idx <= Len(PlanSteps(reqs.plan[r]))
  /\ LET l == reqs.locals[r]
         step == PlanSteps(reqs.plan[r])[l.idx]
         res == NewResult(l.idx, step)
         rsl == Resolve(step)
         failed == [res EXCEPT !.error = rsl.error]
     IN reqs' =
          IF ~rsl.ok
            THEN [reqs EXCEPT
                    !.store[ResultsSlot(r)] = Record(@, step, failed),
                    !.locals[r] = [l EXCEPT !.idx = @ + 1, !.result = failed],
                    !.alone[r] = Record(@, step, failed)]
          ELSE [reqs EXCEPT
                  !.pc[r] = "retry",
                  !.locals[r] = [l EXCEPT !.result = res, !.attempt = 0]]
  /\ UNCHANGED <<exec_vars, ver_vars, call>>

\* one iteration of the retry loop of request r
ConcAttempt(r) ==
  /\ reqs.pc[r] = "retry"
  /\ \E o \in ConcOutcomes :
       LET l == reqs.locals[r]
           step == PlanSteps(reqs.plan[r])[l.idx]
           b == AttemptBody(l.result, l.attempt, o, max_retries)
       IN reqs' =
            IF b.ctl = "loop" /\ LoopContinues(l.attempt, max_retries)
              THEN [reqs EXCEPT
                      !.locals[r] = [l EXCEPT !.result = b.result,
                                              !.attempt = @ + 1]]
            ELSE [reqs EXCEPT
                    !.pc[r] = "steps",
                    !.store[ResultsSlot(r)] = Record(@, step, b.result),
                    !.locals[r] = [l EXCEPT !.result = b.result,
                                            !.idx = @ + 1],
                    !.alone[r] = Record(@, step, b.result)]
  /\ UNCHANGED <<exec_vars, ver_vars, call>>

\* execute_plan of request r after its loop; the locals of the loops go
\* out of scope
ConcFinishPlan(r) ==
  /\ reqs.pc[r] = "steps"
  /\ reqs.locals[r].idx > Len(PlanSteps(reqs.plan[r]))
  /\ LET rep == reqs.store[ResultsSlot(r)]
         alone == reqs.alone[r]
     IN reqs' = [reqs EXCEPT
                   !.pc[r] = "report",
                   !.locals[r] = NoLocals,
                   !.report[r] =
                     [rep EXCEPT !.tools_used = ListBy(reqs.hash_order, @)],
                   !.alone_report[r] =
                     [alone EXCEPT !.tools_used = ListBy(reqs.hash_order, @)]]
  /\ UNCHANGED <<exec_vars, ver_vars, call>>

\* a text-generation answer, where verify_and_format does not consult it
Unasked == CHOOSE llm \in ConcResponses : TRUE

\* what verify_and_format returns from its except branch
FallbackAnswer(step_results, failed_steps) ==
  IF BasicFormatRaises(step_results)
    THEN [path |-> "raised", value |-> NoVerification]
  ELSE [path |-> "fallback",
        value |-> _basic_format(original_task, step_results, failed_steps)]

\* verify_and_format on a report by a verifier no other request uses, the
\* text-generation capability being available or not and answering llm
AloneAnswer(step_results, available, llm) ==
  LET failed_steps == FailedSteps(step_results) IN
  IF step_results = << >> THEN [path |-> "empty", value |-> NoResults]
  ELSE IF SuccessfulResults(step_results) = << >>
    THEN [path |-> "all_failed",
          value |-> _format_all_failed(original_task, failed_steps)]
  ELSE IF available /\ llm.kind = "dict"
    THEN [path |-> "llm", value |-> LLMVerification(llm, failed_steps)]
  ELSE FallbackAnswer(step_results, failed_steps)

\* verify_and_format of request r up to the test of _ensure_initialized
ConcVerify(r) ==
  /\ reqs.pc[r] = "report"
  /\ LET step_results == reqs.report[r].step_results
         failed_steps == FailedSteps(step_results)
         alone == AloneAnswer(reqs.alone_report[r].step_results,
                              reqs.llm_available, Unasked)
     IN IF step_results = << >>
          THEN /\ reqs' = [reqs EXCEPT
                             !.pc[r] = "verified",
                             !.answer[r] = [path |-> "empty",
                                            value |-> NoResults],
                             !.alone_answer[r] = alone]
               /\ UNCHANGED <<_initialized, llm_inits>>
        ELSE IF SuccessfulResults(step_results) = << >>
          THEN /\ reqs' = [reqs EXCEPT
                             !.pc[r] = "verified",
                             !.answer[r] =
                               [path |-> "all_failed",
                                value |-> _format_all_failed(original_task,
                                                             failed_steps)],
                             !.alone_answer[r] = alone]
               /\ UNCHANGED <<_initialized, llm_inits>>
        ELSE /\ reqs' = [reqs EXCEPT
                           !.pc[r] = IF _initialized THEN "llm" ELSE "init"]
             /\ UNCHANGED <<_initialized, llm_inits>>
  /\ UNCHANGED <<exec_vars, llm_calls, verification, path, call>>

\* self.llm_client = get_llm_client() of request r
ConcGetClient(r) ==
  /\ reqs.pc[r] = "init"
  /\ llm_inits' = llm_inits + 1
  /\ LET step_results == reqs.report[r].step_results
         failed_steps == FailedSteps(step_results)
     IN reqs' =
          IF reqs.llm_available
            THEN [reqs EXCEPT !.pc[r] = "set", !.llm_client = "client"]
          ELSE [reqs EXCEPT
                  !.pc[r] = "verified",
                  !.answer[r] = FallbackAnswer(step_results, failed_steps),
                  !.alone_answer[r] =
                    AloneAnswer(reqs.alone_report[r].step_results, FALSE,
                                Unasked)]
  /\ UNCHANGED <<exec_vars, _initialized, llm_calls, verification, path, call>>

\* self._initialized = True of request r
ConcSetInitialized(r) ==
  /\ reqs.pc[r] = "set"
  /\ _initialized' = TRUE
  /\ reqs' = [reqs EXCEPT !.pc[r] = "llm"]
  /\ UNCHANGED <<exec_vars, llm_inits, llm_calls, verification, path, call>>

\* the rest of the try block of verify_and_format of request r:
\* self.llm_client.verify_results(...) and what follows it
ConcAnswer(r) ==
  /\ reqs.pc[r] = "llm"
  /\ \E llm \in ConcResponses :
       LET step_results == reqs.report[r].step_results
           failed_steps == FailedSteps(step_results)
       IN reqs' = [reqs EXCEPT
                     !.pc[r] = "verified",
                     !.answer[r] =
                       IF reqs.llm_client # None /\ llm.kind = "dict"
                         THEN [path |-> "llm",
                               value |-> LLMVerification(llm, failed_steps)]
                       ELSE FallbackAnswer(step_results, failed_steps),
                     !.alone_answer[r] =
                       AloneAnswer(reqs.alone_report[r].step_results,
                                   reqs.llm_available, llm)]
  /\ UNCHANGED <<exec_vars, _initialized, llm_inits, llm_calls, verification,
                 path, call>>

ConcNext ==
  \E r \in Requests :
    \/ ConcExecutePlan(r)
    \/ ConcBeginStep(r)
    \/ ConcAttempt(r)
    \/ ConcFinishPlan(r)
    \/ ConcVerify(r)
    \/ ConcGetClient(r)
    \/ ConcSetInitialized(r)
    \/ ConcAnswer(r)

SpecConc == ConcInit /\ [][ConcNext]_vars

\* C15: two requests whose steps and retries interleave in any order
\* through the shared executor and verifier each get the ExecutionReport
\* and the VerificationResult they would get running alone with the same
\* handler and text-generation answers; while a request runs, the report
\* it is building holds only its own step results, counts and tools.
C15_Independent ==
  reqs # << >> =>
    \A r \in Requests :
      /\ reqs.pc[r] \in {"steps", "retry"}
           => reqs.store[ResultsSlot(r)] = reqs.alone[r]
      /\ reqs.pc[r] \in {"report", "init", "set", "llm", "verified"}
           => reqs.report[r] = reqs.alone_report[r]
      /\ reqs.pc[r] = "verified" => reqs.answer[r] = reqs.alone_answer[r]

C15_Witness ==
  /\ reqs # << >>
  /\ reqs.pc[1] = "verified"
  /\ reqs.pc[2] = "retry"
  /\ reqs.locals[2].attempt = 2
  /\ reqs.plan[1].steps[1].tool = "weather"
  /\ reqs.plan[2].steps[1].tool = "GitHub"
  /\ reqs.report[1].tools_used = <<"weather">>
  /\ reqs.report[1].successful_steps = 1
  /\ reqs.answer[1].path = "llm"

====
